---- MODULE Spec2Model ----
(***************************************************************************)
(* Model of the z80ctrl monitor command-line interface (cli.c).            *)
(*                                                                         *)
(* The target is an AVR (MCU = atmega1284p): int and unsigned int are 16   *)
(* bits wide, so uint16_t operands are NOT promoted to a wider type and    *)
(* every uint16_t expression is computed modulo 2^16.  The uint32_t        *)
(* values of the model stay far below 2^31, so they are plain integers.    *)
(*                                                                         *)
(* The module holds one set of variables and one specification per area    *)
(* of the monitor:                                                         *)
(*   SpecTransfer  fill / tmsfill, verify_mem, savebin, dump / tmsdump     *)
(*   FairTransfer  the same, with the scheduling of a running handler      *)
(*   SpecFillVerify  a fill followed by verify_mem over the same range     *)
(*   SpecLoad      loadbin / tmslbin / flash                               *)
(*   SpecBreak     the break / watch range registries                      *)
(*   SpecArgs      the argument checks of the handlers                     *)
(*   SpecBaud      the baud divisor search                                 *)
(*   FairBaud      the same, with the scheduling of the running search     *)
(*   SpecExec      command files: cli_exec, cli_do, main                   *)
(*   FairExec      the same, with the scheduling of a running cli_exec     *)
(*                 and the exhaustion of the stack by nested calls         *)
(*   SpecFiles     the handlers that open a file: loadhex, savehex,        *)
(*                 loadbin, savebin, cli_exec                              *)
(*   SpecDispatch  cli_loop and cli_dispatch                               *)
(***************************************************************************)
EXTENDS Integers, Sequences, FiniteSets, TLC

VARIABLES
    pc,       \* position of the running transfer handler
    argv0,    \* argv[0] of the running transfer handler
    start,    \* uint16_t start
    end,      \* uint16_t end
    len,      \* uint16_t len (savebin) / buflen (verify_mem, dump)
    i,        \* uint32_t i (verify_mem, dump)
    errors,   \* int errors (verify_mem)
    buf,      \* uint8_t buf[256] of cli_fill (the pattern)
    src,      \* verify_mem: the reference buffer, as an image index
    image,    \* contents of the targets before the command, as an image index
    ops,      \* journal of the memory-target and file operations issued
    fil,      \* FatFs file object of the handler: "none", "open", "closed", "failed"
    vlog,     \* verify_mem: the arguments of each printf_P call, as passed
    vlogOn,   \* verify_mem: the log parameter
    args,     \* the start and end the running handler was called with
    offset,   \* cli_loadbin: uint16_t offset
    fsize,    \* cli_loadbin: the size of the file f_open found
    fptr,     \* cli_loadbin: the read position of the file
    br,       \* cli_loadbin: UINT br
    breaks,   \* range breaks[DEBUGCNT]
    watches,  \* range watches[DEBUGCNT]
    bwOut,    \* what the last break / watch command printed
    call,     \* the outcome of the last handler call (argument checks)
    bpc,      \* position of cli_baud
    uart,     \* uint8_t uart
    requested, \* uint32_t requested
    ubrr,     \* uint16_t ubrr
    actual,   \* uint32_t actual
    uartInit, \* the arguments of uart_init and the rates printed before it
    phase,    \* main: "boot" before cli_exec(AUTOEXEC), then "loop"
    card,     \* the files of the SD card
    stack,    \* the running cli_exec calls, innermost first
    attempts, \* the f_open calls of cli_exec so far, with what was printed
    ncmds,    \* `do` commands typed so far
    xlog,     \* the f_open and f_close calls of cli_exec, in order
    iorq,     \* the build: TRUE when IORQ_OUTPUT is defined
    stdin,    \* the characters typed and not yet read by fgets
    disp      \* the buffer fgets filled since the last prompt and what
              \* cli_dispatch did with it

xferVars == <<pc, argv0, start, end, len, i, errors, buf, src, image, ops, fil,
              vlog, vlogOn, args>>

loadVars == <<offset, fsize, fptr, br>>

regVars == <<breaks, watches, bwOut>>

baudVars == <<bpc, uart, requested, ubrr, actual, uartInit>>

execVars == <<phase, card, stack, attempts, ncmds, xlog>>

dispVars == <<iorq, stdin, disp>>

vars == <<xferVars, loadVars, regVars, call, baudVars, execVars, dispVars>>

\* what cli_loop and cli_dispatch themselves leave alone
notDisp == <<xferVars, loadVars, regVars, call, baudVars, execVars>>

\* what main, cli_exec and cli_do leave alone
notExec == <<xferVars, loadVars, regVars, call, baudVars, dispVars>>

\* what the transfer handlers leave alone
notXfer == <<loadVars, regVars, call, baudVars, execVars, dispVars>>

\* what cli_breakwatch leaves alone
notReg == <<xferVars, loadVars, call, baudVars, execVars, dispVars>>

\* what the argument checks leave alone
notArgs == <<xferVars, loadVars, regVars, baudVars, execVars, dispVars>>

\* what cli_loadbin leaves alone
notLoad == <<regVars, call, baudVars, execVars, dispVars>>

\* what cli_baud leaves alone
notBaud == <<xferVars, loadVars, regVars, call, execVars, dispVars>>

(***************************************************************************)
(* Machine arithmetic                                                      *)
(***************************************************************************)
W16 == 65536

U16(x) == x % W16

Byte == 0..255

(***************************************************************************)
(* Tokens are sequences of characters; strcmp is equality of sequences.    *)
(***************************************************************************)
HexChars == <<"0", "1", "2", "3", "4", "5", "6", "7", "8", "9",
              "a", "b", "c", "d", "e", "f">>

HexUpper == <<"0", "1", "2", "3", "4", "5", "6", "7", "8", "9",
              "A", "B", "C", "D", "E", "F">>

\* value of a digit character, or -1 when it is no digit
DigitVal(c) ==
    IF \E k \in 1..16 : HexChars[k] = c
    THEN (CHOOSE k \in 1..16 : HexChars[k] = c) - 1
    ELSE IF \E k \in 1..16 : HexUpper[k] = c
         THEN (CHOOSE k \in 1..16 : HexUpper[k] = c) - 1
         ELSE -1

RECURSIVE ScanDigits(_, _, _, _)
ScanDigits(s, k, base, acc) ==
    IF k > Len(s) \/ DigitVal(s[k]) < 0 \/ DigitVal(s[k]) >= base
    THEN acc
    ELSE ScanDigits(s, k + 1, base, acc * base + DigitVal(s[k]))

\* strtoul(s, NULL, base) of a token without sign, blanks or radix prefix:
\* the value of the longest prefix of digits, 0 when there is none.  The
\* tokens of the model have at most 7 digits, so the unsigned long result
\* (32 bits) never saturates at ULONG_MAX.
strtoul(s, base) == ScanDigits(s, 1, base, 0)

\* strtoul(tok, NULL, 16) & 0xffff
Addr(tok) == strtoul(tok, 16) % W16

(***************************************************************************)
(* Memory targets and the journal of operations                            *)
(***************************************************************************)
\* number of the last memory image the model starts from (images 0..MaxImage)
MaxImage == 1

\* number of debug classes of the model (DEBUGCNT of z80.h, which is 6)
DEBUGCNT == 2

\* journal entries kept; a handler that never returns stops adding to it
\* (the one f_close of a handler is appended past this bound)
MaxOps == 260

\* byte at address a of memory image k: image 0 is the constant 0xAA, the
\* others vary with the 256-byte page (and, from 2 on, with the address)
Image(k, a) == (170 + k * (a \div 256) + (k \div 2) * a) % 256

WriteOp(t, a, d) ==
    [op |-> "write", tgt |-> t, addr |-> a, len |-> Len(d), data |-> d, res |-> "ok"]

ReadOp(t, a, n) ==
    [op |-> "read", tgt |-> t, addr |-> a, len |-> n, data |-> <<>>, res |-> "ok"]

FileOp(o, n, d, r) ==
    [op |-> o, tgt |-> "file", addr |-> 0, len |-> n, data |-> d, res |-> r]

Log(j, new) == IF Len(j) + Len(new) <= MaxOps THEN j \o new ELSE j

MaxOf(S) == CHOOSE x \in S : \A y \in S : y <= x

\* byte at address a of target t: the last journalled write covering a
\* (write_mem / tms_write store len bytes from addr on, modulo 2^16),
\* else the byte the target held before the command
MemAt(t, a) ==
    LET hits == {k \in 1..Len(ops) :
                    /\ ops[k].op = "write"
                    /\ ops[k].tgt = t
                    /\ U16(a - ops[k].addr) < ops[k].len}
    IN  IF hits = {}
        THEN Image(image, a)
        ELSE ops[MaxOf(hits)].data[U16(a - ops[MaxOf(hits)].addr) + 1]

\* read_mem(addr, buf, n): the n bytes from addr on, modulo 2^16
MemRead(t, a, n) == [k \in 1..n |-> MemAt(t, U16(a + k - 1))]

(***************************************************************************)
(* cli_fill                                                                *)
(***************************************************************************)
T_asc == <<"a", "s", "c">>

T_desc == <<"d", "e", "s", "c">>

\* the 256-byte pattern buffer built from argv[3]
Pattern(v) ==
    IF v = T_asc THEN [k \in 1..256 |-> k - 1]
    ELSE IF v = T_desc THEN [k \in 1..256 |-> 255 - (k - 1)]
    ELSE [k \in 1..256 |-> strtoul(v, 16) % 256]

\* the n bytes a write call takes from buf; buf holds 256 bytes, so a byte
\* taken from beyond it is whatever follows buf in memory (oob)
BufRead(b, n, oob) == [k \in 1..n |-> IF k <= 256 THEN b[k] ELSE oob]

\* the loop test of cli_fill, on unsigned 16-bit operands
FillMore(s, e) == U16(e - s) > 256

\* the journal entries of the final chunk of cli_fill: `if (tms)` governs
\* tms_write only, write_mem follows it unconditionally
FillLast(t, s, d) ==
    (IF t THEN <<WriteOp("tms", s, d)>> ELSE <<>>) \o <<WriteOp("bus", s, d)>>

FillNames == {"fill", "tmsfill"}

FillRanges ==
    { << <<"1", "0", "0", "0">>, <<"1", "0", "f", "f">> >>,
      << <<"0">>, <<"0">> >>,
      << <<"0">>, <<"1", "0", "0">> >>,
      << <<"0">>, <<"1", "0", "1">> >>,
      << <<"1", "0">>, <<"2", "0", "f">> >>,
      << <<"0">>, <<"2", "0", "0">> >>,
      << <<"f", "e", "8", "0">>, <<"f", "f", "f", "f">> >>,
      << <<"1", "1", "0", "0", "0">>, <<"1", "0", "7", "f">> >>,
      << <<"1">>, <<"0">> >> }

FillValues == {T_asc, T_desc, <<"1", "a", "a">>}

FillCall(name, s, e, v) ==
    /\ UNCHANGED notXfer
    /\ pc = "idle"
    /\ pc' = "fill"
    /\ argv0' = name
    /\ start' = Addr(s)
    /\ end' = Addr(e)
    /\ buf' = Pattern(v)
    /\ args' = [start |-> start', end |-> end']
    /\ UNCHANGED <<len, i, errors, src, image, ops, fil, vlog, vlogOn>>

FillChunk ==
    /\ UNCHANGED notXfer
    /\ pc = "fill"
    /\ LET tms == (argv0 = "tmsfill") IN
       IF FillMore(start, end)
       THEN /\ ops' = Log(ops, <<WriteOp(IF tms THEN "tms" ELSE "bus", start,
                                         BufRead(buf, 256, 0))>>)
            /\ start' = U16(start + 256)
            /\ pc' = "fill"
       ELSE /\ \E oob \in (IF U16(end - start + 1) > 256 THEN Byte ELSE {0}) :
                 ops' = Log(ops, FillLast(tms, start,
                                          BufRead(buf, U16(end - start + 1), oob)))
            /\ start' = start
            /\ pc' = "done"
    /\ UNCHANGED <<args, argv0, end, len, i, errors, buf, src, image, fil, vlog, vlogOn>>

(***************************************************************************)
(* verify_mem                                                              *)
(***************************************************************************)
\* src[a]: the reference buffer is indexed by the absolute address
SrcAt(k, a) == Image(k, a)

\* the address verify_mem hands to read_mem for the chunk that starts at i
VerifyReadAddr(s, at) == s

\* the largest value of `int errors`: int is 16 bits wide on the AVR
INT_MAX == 32767

\* errors after n more `errors++`: the sum while it fits the int; beyond
\* INT_MAX the signed overflow is undefined, and the build either wraps (the
\* two's complement addition of the AVR) or, with the compiler taking
\* errors as never decreasing, leaves the counter at INT_MAX
CountUp(e, n) ==
    IF e + n <= INT_MAX THEN {e + n} ELSE {e + n - W16, INT_MAX}

\* mismatches of one chunk: buf[j] against src[i + j], j = 0..n-1
ChunkErrors(b, k, at, n) == Cardinality({j \in 0..(n - 1) : b[j + 1] # SrcAt(k, at + j)})

\* the arguments of the printf calls of one chunk, in order of j:
\* (start + i, src[i], buf[j]) for each mismatch
Mismatch(t) == t[2] # t[3]

ChunkLog(b, k, s, at, n) ==
    SelectSeq([j \in 1..n |-> <<s + at + j - 1, SrcAt(k, at + j - 1), b[j]>>], Mismatch)

VerifyRanges ==
    { <<0, 0>>, <<0, 255>>, <<4096, 4351>>, <<0, 511>>, <<16, 527>>, <<256, 300>>,
      <<65024, 65535>>, <<65535, 65535>>, <<5, 3>>, <<65535, 0>> }

VerifyCall(s, e, k, log) ==
    /\ UNCHANGED notXfer
    /\ pc = "idle"
    /\ pc' = "verify"
    /\ argv0' = "verify_mem"
    /\ start' = s
    /\ end' = e
    /\ src' = k
    /\ vlogOn' = log
    /\ errors' = 0
    /\ len' = 256
    /\ i' = s
    /\ args' = [start |-> start', end |-> end']
    /\ UNCHANGED <<buf, image, ops, fil, vlog>>

\* one iteration of `while (i <= end)`, the inner for loop included
VerifyChunk ==
    /\ UNCHANGED notXfer
    /\ pc = "verify"
    /\ i <= end
    /\ LET n == IF end - i + 1 < len THEN end - i + 1 ELSE len
           b == MemRead("bus", VerifyReadAddr(start, i), n)
       IN  /\ len' = n
           /\ ops' = Log(ops, <<ReadOp("bus", VerifyReadAddr(start, i), n)>>)
           /\ errors' \in CountUp(errors, ChunkErrors(b, src, i, n))
           /\ vlog' = IF vlogOn THEN vlog \o ChunkLog(b, src, start, i, n) ELSE vlog
           /\ i' = i + n
    /\ UNCHANGED <<args, pc, argv0, start, end, buf, src, image, fil, vlogOn>>

VerifyReturn ==
    /\ UNCHANGED notXfer
    /\ pc = "verify"
    /\ i > end
    /\ pc' = "done"
    /\ UNCHANGED <<args, argv0, start, end, len, i, errors, buf, src, image, ops, fil,
                   vlog, vlogOn>>

(***************************************************************************)
(* cli_savebin                                                             *)
(***************************************************************************)
SaveRanges ==
    { << <<"0">>, <<"0">> >>,
      << <<"1", "0", "0", "0">>, <<"1", "0", "f", "f">> >>,
      << <<"1", "0">>, <<"2", "5", "0">> >>,
      << <<"0">>, <<"1", "f", "f">> >>,
      << <<"f", "e", "0", "0">>, <<"f", "f", "f", "e">> >>,
      << <<"f", "f", "0", "0">>, <<"f", "f", "f", "f">> >>,
      << <<"0">>, <<"f", "f", "f", "f">> >>,
      << <<"5">>, <<"3">> >>,
      << <<"f", "f", "f", "f">>, <<"0">> >> }

\* the chunk length of cli_savebin: len only ever shrinks
SaveLen(s, e, l) == IF U16(e - s + 1) < l THEN U16(e - s + 1) ELSE l

SavebinCall(s, e, opened) ==
    /\ UNCHANGED notXfer
    /\ pc = "idle"
    /\ argv0' = "savebin"
    /\ len' = 256
    /\ start' = Addr(s)
    /\ end' = Addr(e)
    /\ IF opened
       THEN /\ ops' = Log(ops, <<FileOp("f_open", 0, <<>>, "ok")>>)
            /\ fil' = "open"
            /\ pc' = "savebin"
       ELSE /\ ops' = Log(ops, <<FileOp("f_open", 0, <<>>, "err")>>)
            /\ fil' = "failed"
            /\ pc' = "done"
    /\ args' = [start |-> start', end |-> end']
    /\ UNCHANGED <<i, errors, buf, src, image, vlog, vlogOn>>

\* one iteration of `while (start <= end)`
SavebinChunk(written) ==
    /\ UNCHANGED notXfer
    /\ pc = "savebin"
    /\ start <= end
    /\ LET n == SaveLen(start, end, len)
           b == MemRead("bus", start, n)
       IN  /\ len' = n
           /\ ops' = Log(ops, <<ReadOp("bus", start, n),
                                FileOp("f_write", n, b, IF written THEN "ok" ELSE "err")>>)
           /\ IF written
              THEN start' = U16(start + n) /\ pc' = "savebin"
              ELSE start' = start /\ pc' = "savebin_close"
    /\ UNCHANGED <<args, argv0, end, i, errors, buf, src, image, fil, vlog, vlogOn>>

SavebinClose ==
    /\ UNCHANGED notXfer
    /\ \/ pc = "savebin" /\ start > end
       \/ pc = "savebin_close"
    /\ ops' = Append(ops, FileOp("f_close", 0, <<>>, "ok"))
    /\ fil' = "closed"
    /\ pc' = "done"
    /\ UNCHANGED <<args, argv0, start, end, len, i, errors, buf, src, image, vlog, vlogOn>>

(***************************************************************************)
(* cli_dump                                                                *)
(***************************************************************************)
DumpNames == {"dump", "tmsdump"}

DumpArgs ==
    { << <<"0">>, <<"f">> >>,
      << <<"1", "0", "0">>, <<"1", "2", "0">> >>,
      << <<"f", "f", "e", "0">>, <<"f", "f", "f", "f">> >>,
      << <<"f", "f", "f", "8">>, <<"f", "f", "f", "f">> >>,
      << <<"2", "0">>, <<"1", "0">> >>,
      << <<"f", "f", "f", "f">>, <<"0">> >> }

DumpCall(name, argc, s, e) ==
    /\ UNCHANGED notXfer
    /\ pc = "idle"
    /\ pc' = "dump"
    /\ argv0' = name
    /\ start' = Addr(s)
    /\ end' = IF argc < 3 THEN U16(Addr(s) + 255) ELSE Addr(e)
    /\ len' = 16
    /\ i' = Addr(s)
    /\ args' = [start |-> start', end |-> end']
    /\ UNCHANGED <<errors, buf, src, image, ops, fil, vlog, vlogOn>>

\* one iteration of `while (i <= end)`: one row of buflen bytes
DumpRow ==
    /\ UNCHANGED notXfer
    /\ pc = "dump"
    /\ i <= end
    /\ ops' = Log(ops, <<ReadOp(IF argv0 = "tmsdump" THEN "tms" ELSE "bus", U16(i), len)>>)
    /\ i' = i + len
    /\ UNCHANGED <<args, pc, argv0, start, end, len, errors, buf, src, image, fil, vlog, vlogOn>>

DumpReturn ==
    /\ UNCHANGED notXfer
    /\ pc = "dump"
    /\ i > end
    /\ pc' = "done"
    /\ UNCHANGED <<args, argv0, start, end, len, i, errors, buf, src, image, ops, fil,
                   vlog, vlogOn>>

(***************************************************************************)
(* cli_loadbin                                                             *)
(***************************************************************************)
\* byte at position p of the file being loaded
FileByte(p) == (p * 7 + p \div 256 + 3) % 256

\* what f_read(&fil, buf, 256, &br) stores in buf at read position p
FileRead(p, n) == [k \in 1..n |-> FileByte(p + k - 1)]

\* f_lseek on a file opened for reading: a position past the end of the
\* file is clamped to the size of the file
Seek(size, ofs) == IF ofs > size THEN size ELSE ofs

\* br after f_read: the bytes left in the file, at most the 256 asked for
ReadCount(size, p) == IF size - p < 256 THEN size - p ELSE 256

\* a slip of the test below: the length is never applied
LoadBrUncapped(n, l) == n

\* if (br > len) br = len;
LoadBr(n, l) == IF n > l THEN l ELSE n

LoadNames == {"loadbin", "tmslbin", "flash"}

LoadTarget(name) ==
    IF name = "flash" THEN "flash" ELSE IF name = "tmslbin" THEN "tms" ELSE "bus"

\* argc, argv[1], the size of the file argv[2], argv[3], argv[4]
LoadArgs ==
    { <<3, <<"0">>, 0, <<>>, <<>> >>,
      <<3, <<"1", "0", "0">>, 100, <<>>, <<>> >>,
      <<3, <<"0">>, 256, <<>>, <<>> >>,
      <<3, <<"f", "f", "8", "0">>, 700, <<>>, <<>> >>,
      <<3, <<"8", "0">>, 66000, <<>>, <<>> >>,
      <<4, <<"0">>, 100, <<"4", "0">>, <<>> >>,
      <<4, <<"0">>, 100, <<"3", "0", "0">>, <<>> >>,
      <<4, <<"0">>, 700, <<"b", "c">>, <<>> >>,
      <<5, <<"0">>, 700, <<"0">>, <<"0">> >>,
      <<5, <<"0">>, 700, <<"0">>, <<"8", "0">> >>,
      <<5, <<"f", "f", "8", "0">>, 700, <<"1", "0">>, <<"1", "0", "0">> >>,
      <<5, <<"0">>, 700, <<"0">>, <<"1", "0", "1">> >>,
      <<5, <<"0">>, 700, <<"0">>, <<"2", "0", "0">> >>,
      <<5, <<"0">>, 512, <<"0">>, <<"2", "0", "0">> >>,
      <<5, <<"0">>, 100, <<"0">>, <<"2", "0", "0">> >>,
      <<5, <<"0">>, 700, <<"0">>, <<"1", "0", "0", "0", "0">> >> }

\* a seek error that returns as the open error does
AfterSeekErrorReturn == "done"

\* where cli_loadbin goes on after "seek error": no return, so the f_close
\* after the if / else chain
AfterSeekError == "loadbin_close"

\* cli_loadbin up to the read loop: the arguments, f_open and f_lseek
LoadbinCall(name, a, opened, sought) ==
    /\ UNCHANGED notLoad
    /\ pc = "idle"
    /\ argv0' = name
    /\ start' = Addr(a[2])
    /\ offset' = (IF a[1] >= 4 THEN Addr(a[4]) ELSE 0)
    /\ len' = (IF a[1] >= 5 THEN Addr(a[5]) ELSE 65536)
    /\ fsize' = a[3]
    /\ args' = [start |-> start', end |-> 0, offset |-> offset', len |-> len']
    /\ br' = 0
    /\ IF ~opened
       THEN /\ ops' = Log(ops, <<FileOp("f_open", 0, <<>>, "err")>>)
            /\ fil' = "failed"
            /\ fptr' = 0
            /\ pc' = "done"
       ELSE IF ~sought
       THEN /\ ops' = Log(ops, <<FileOp("f_open", 0, <<>>, "ok"),
                                 FileOp("f_lseek", offset', <<>>, "err")>>)
            /\ fil' = "open"
            /\ fptr' = 0
            /\ pc' = AfterSeekError
       ELSE /\ ops' = Log(ops, <<FileOp("f_open", 0, <<>>, "ok"),
                                 FileOp("f_lseek", offset', <<>>, "ok")>>)
            /\ fil' = "open"
            /\ fptr' = Seek(a[3], offset')
            /\ pc' = "loadbin"
    /\ UNCHANGED <<end, i, errors, buf, src, image, vlog, vlogOn>>

\* one iteration of `while ((fr = f_read(...)) == FR_OK)`
LoadbinChunk(wasRead) ==
    /\ UNCHANGED notLoad
    /\ pc = "loadbin"
    /\ IF ~wasRead
       THEN /\ ops' = Log(ops, <<FileOp("f_read", 0, <<>>, "err")>>)
            /\ pc' = "loadbin_close"
            /\ UNCHANGED <<start, len, fptr, br>>
       ELSE LET n == ReadCount(fsize, fptr)
                b == LoadBr(n, len)
            IN  /\ br' = b
                /\ fptr' = fptr + n
                /\ ops' = Log(ops, <<WriteOp(LoadTarget(argv0), start,
                                             SubSeq(FileRead(fptr, n), 1, b))>>)
                /\ IF b < 256
                   THEN pc' = "loadbin_close" /\ UNCHANGED <<start, len>>
                   ELSE /\ start' = U16(start + b)
                        /\ len' = len - b
                        /\ pc' = "loadbin"
    /\ UNCHANGED <<args, argv0, end, i, errors, buf, src, image, fil, vlog, vlogOn,
                   offset, fsize>>

\* f_close after the loop or after a seek error
LoadbinClose ==
    /\ UNCHANGED notLoad
    /\ pc = "loadbin_close"
    /\ ops' = Append(ops, FileOp("f_close", 0, <<>>, "ok"))
    /\ fil' = "closed"
    /\ pc' = "done"
    /\ UNCHANGED <<args, argv0, start, end, len, i, errors, buf, src, image, vlog,
                   vlogOn, loadVars>>

(***************************************************************************)
(* cli_loadhex, cli_savehex: the file handling around load_ihex, save_ihex *)
(***************************************************************************)
\* cli_loadhex up to load_ihex: from the console when no file is named
LoadhexCall(argc, opened) ==
    /\ UNCHANGED notLoad
    /\ pc = "idle"
    /\ argv0' = "loadhex"
    /\ IF argc < 2
       THEN /\ ops' = ops
            /\ fil' = "none"
            /\ pc' = "done"
       ELSE IF opened
       THEN /\ ops' = Log(ops, <<FileOp("f_open", 0, <<>>, "ok")>>)
            /\ fil' = "open"
            /\ pc' = "hex_file"
       ELSE /\ ops' = Log(ops, <<FileOp("f_open", 0, <<>>, "err")>>)
            /\ fil' = "failed"
            /\ pc' = "done"
    /\ UNCHANGED <<args, start, end, len, i, errors, buf, src, image, vlog, vlogOn,
                   loadVars>>

\* cli_savehex up to save_ihex: to a file only when argc == 4
SavehexCall(argc, s, e, opened) ==
    /\ UNCHANGED notLoad
    /\ pc = "idle"
    /\ argv0' = "savehex"
    /\ start' = Addr(s)
    /\ end' = Addr(e)
    /\ args' = [start |-> start', end |-> end']
    /\ IF argc # 4
       THEN /\ ops' = ops
            /\ fil' = "none"
            /\ pc' = "done"
       ELSE IF opened
       THEN /\ ops' = Log(ops, <<FileOp("f_open", 0, <<>>, "ok")>>)
            /\ fil' = "open"
            /\ pc' = "hex_file"
       ELSE /\ ops' = Log(ops, <<FileOp("f_open", 0, <<>>, "err")>>)
            /\ fil' = "failed"
            /\ pc' = "done"
    /\ UNCHANGED <<len, i, errors, buf, src, image, vlog, vlogOn, loadVars>>

\* load_ihex / save_ihex on the file has returned, with errors or without,
\* and f_close follows, whose result is only printed
HexClose(failed, closed) ==
    /\ UNCHANGED notLoad
    /\ pc = "hex_file"
    /\ errors' = (IF failed THEN 1 ELSE 0)
    /\ ops' = Append(ops, FileOp("f_close", 0, <<>>, IF closed THEN "ok" ELSE "err"))
    /\ fil' = "closed"
    /\ pc' = "done"
    /\ UNCHANGED <<args, argv0, start, end, len, i, buf, src, image, vlog, vlogOn,
                   loadVars>>

\* cli_loadbin is not running
IdleLoad ==
    /\ offset = 0
    /\ fsize = 0
    /\ fptr = 0
    /\ br = 0

\* no transfer handler is running
IdleTransfer ==
    /\ IdleLoad
    /\ pc = "idle"
    /\ argv0 = ""
    /\ start = 0
    /\ end = 0
    /\ len = 0
    /\ i = 0
    /\ errors = 0
    /\ buf = <<>>
    /\ src = 0
    /\ ops = <<>>
    /\ fil = "none"
    /\ vlog = <<>>
    /\ vlogOn = FALSE
    /\ args = [start |-> 0, end |-> 0]

\* the registries as z80.c defines them: every class disabled
InitRegistry ==
    /\ breaks = [t \in 0..(DEBUGCNT - 1) |-> [start |-> 65535, end |-> 0]]
    /\ watches = [t \in 0..(DEBUGCNT - 1) |-> [start |-> 65535, end |-> 0]]
    /\ bwOut = [kind |-> "none", lines |-> <<>>]

\* no handler has been called
NoCall == call = [name |-> "", argc |-> 0, usage |-> FALSE, absent |-> {}, effects |-> {}]

\* cli_baud is not running; main has set both UARTs up with UBRR115200
IdleBaud ==
    /\ bpc = "idle"
    /\ uart = 0
    /\ requested = 0
    /\ ubrr = 0
    /\ actual = 0
    /\ uartInit = [uart |-> 0, ubrr |-> 0, requested |-> 0, actual |-> 0]

\* the monitor is in cli_loop and no command file is running
IdleExec ==
    /\ phase = "loop"
    /\ card = [n \in {"autoexec.z8c"} |-> [exists |-> FALSE, lines |-> <<>>]]
    /\ stack = <<>>
    /\ attempts = {}
    /\ ncmds = 0
    /\ xlog = <<>>

\* nothing has been typed; the build has every command
IdleDispatch ==
    /\ iorq = TRUE
    /\ stdin = <<>>
    /\ disp = [buf |-> <<>>, kind |-> "none", index |-> 0, func |-> "", argc |-> 0,
               argv |-> <<>>, msg |-> <<>>]

InitTransfer ==
    /\ IdleTransfer
    /\ image \in 0..MaxImage
    /\ InitRegistry
    /\ NoCall
    /\ IdleBaud
    /\ IdleExec
    /\ IdleDispatch

\* the steps of the transfer handlers; W holds the outcomes an f_write may have
TransferStep(W) ==
    \/ \E name \in FillNames, r \in FillRanges, v \in FillValues :
          FillCall(name, r[1], r[2], v)
    \/ FillChunk
    \/ \E r \in VerifyRanges, k \in 0..MaxImage, log \in BOOLEAN :
          VerifyCall(r[1], r[2], k, log)
    \/ VerifyChunk
    \/ VerifyReturn
    \/ \E r \in SaveRanges, opened \in BOOLEAN : SavebinCall(r[1], r[2], opened)
    \/ \E written \in W : SavebinChunk(written)
    \/ SavebinClose
    \/ \E name \in DumpNames, argc \in {2, 3}, r \in DumpArgs :
          DumpCall(name, argc, r[1], r[2])
    \/ DumpRow
    \/ DumpReturn

NextTransfer == TransferStep(BOOLEAN)

SpecTransfer == InitTransfer /\ [][NextTransfer]_vars

\* every file write succeeds
NextWritten == TransferStep({TRUE})

\* a handler that has been entered runs on: the monitor is single-threaded
\* and nothing preempts a command
FairTransfer == InitTransfer /\ [][NextWritten]_vars /\ WF_vars(NextWritten)

(***************************************************************************)
(* A fill followed by verify_mem over the same range                       *)
(***************************************************************************)
\* the handler cli_dispatch called returns to cli_loop; the memory targets
\* keep what the handler wrote
HandlerReturn ==
    /\ UNCHANGED notXfer
    /\ pc = "done"
    /\ pc' = "idle"
    /\ UNCHANGED <<args, argv0, start, end, len, i, errors, buf, src, image, ops, fil,
                   vlog, vlogOn>>

\* argv[1], argv[2] of the fill: one byte, one and two pages, 257 bytes,
\* an unaligned range, the top of the address space, and the shortest range
\* with more addresses than INT_MAX
FvRanges ==
    { << <<"1", "0", "0", "0">>, <<"1", "0", "f", "f">> >>,
      << <<"0">>, <<"0">> >>,
      << <<"0">>, <<"1", "0", "0">> >>,
      << <<"1", "0">>, <<"2", "0", "f">> >>,
      << <<"f", "e", "0", "0">>, <<"f", "f", "f", "f">> >>,
      << <<"0">>, <<"7", "f", "f", "f">> >> }

\* argv[3] of the fill: the byte reference 0 holds, and another byte
FvValues == {<<"a", "a">>, <<"b", "b">>}

InitFillVerify == InitTransfer

\* one `fill`, then verify_mem over the range the fill was given, against
\* reference 0 (0xAA at every address), without logging
NextFillVerify ==
    \/ \E r \in FvRanges, v \in FvValues : ops = <<>> /\ FillCall("fill", r[1], r[2], v)
    \/ FillChunk
    \/ HandlerReturn
    \/ argv0 = "fill" /\ VerifyCall(args.start, args.end, 0, FALSE)
    \/ VerifyChunk
    \/ VerifyReturn

SpecFillVerify == InitFillVerify /\ [][NextFillVerify]_vars

InitLoad ==
    /\ IdleTransfer
    /\ image = 0
    /\ InitRegistry
    /\ NoCall
    /\ IdleBaud
    /\ IdleExec
    /\ IdleDispatch

NextLoad ==
    \/ \E name \in LoadNames, a \in LoadArgs, opened \in BOOLEAN, sought \in BOOLEAN :
          LoadbinCall(name, a, opened, sought)
    \/ \E wasRead \in BOOLEAN : LoadbinChunk(wasRead)
    \/ LoadbinClose

SpecLoad == InitLoad /\ [][NextLoad]_vars

(***************************************************************************)
(* cli_breakwatch: the break and watch range registries                    *)
(***************************************************************************)
\* debug_names of z80.h
AllDebugNames ==
    << <<"m", "e", "m", "r", "d">>, <<"m", "e", "m", "w", "r">>,
       <<"i", "o", "r", "d">>, <<"i", "o", "w", "r">>,
       <<"o", "p", "f", "e", "t", "c", "h">>, <<"b", "u", "s">> >>

debug_names == [t \in 0..(DEBUGCNT - 1) |-> AllDebugNames[t + 1]]

T_off == <<"o", "f", "f">>

Sentinel == [start |-> 65535, end |-> 0]

\* a test of the other sign
EnabledReversed(r) == r.start >= r.end

\* ENABLED(ranges, i) of z80.h
Enabled(r) == r.start <= r.end

\* a loop that accepts the leading characters of a name
FindTypePrefix(tok) ==
    IF \E t \in 0..(DEBUGCNT - 1) :
          Len(tok) <= Len(debug_names[t]) /\ tok = SubSeq(debug_names[t], 1, Len(tok))
    THEN CHOOSE t \in 0..(DEBUGCNT - 1) :
            Len(tok) <= Len(debug_names[t]) /\ tok = SubSeq(debug_names[t], 1, Len(tok))
    ELSE DEBUGCNT

\* the loop that finds the debugging type: the first index whose name equals
\* the token, DEBUGCNT when there is none
FindType(tok) ==
    IF \E t \in 0..(DEBUGCNT - 1) : debug_names[t] = tok
    THEN CHOOSE t \in 0..(DEBUGCNT - 1) :
            /\ debug_names[t] = tok
            /\ \A u \in 0..(t - 1) : debug_names[u] # tok
    ELSE DEBUGCNT

\* a range left open at the top when no end is given
SetRangeOpenEnded(av) ==
    [start |-> strtoul(av[2], 16) % W16,
     end   |-> IF Len(av) >= 3 THEN strtoul(av[3], 16) % W16 ELSE 65535]

\* the range `<type> <start> [end]` stores: the parsed values as they are,
\* truncated to the uint16_t fields
SetRange(av) ==
    [start |-> strtoul(av[2], 16) % W16,
     end   |-> IF Len(av) >= 3 THEN strtoul(av[3], 16) % W16
               ELSE strtoul(av[2], 16) % W16]

\* the lines of the status display
StatusLines(ranges) ==
    [k \in 1..DEBUGCNT |->
        IF ~Enabled(ranges[k - 1])
        THEN [name |-> debug_names[k - 1], text |-> "disabled", start |-> 0, end |-> 0]
        ELSE [name |-> debug_names[k - 1], text |-> "range",
              start |-> ranges[k - 1].start, end |-> ranges[k - 1].end]]

\* the registry after the command with arguments av = argv[1..argc-1]
BwUpdate(ranges, av) ==
    IF Len(av) = 0 THEN ranges
    ELSE IF av[1] = T_off THEN [t \in 0..(DEBUGCNT - 1) |-> Sentinel]
    ELSE IF FindType(av[1]) = DEBUGCNT THEN ranges
    ELSE IF Len(av) = 1
         THEN [ranges EXCEPT ![FindType(av[1])] = [start |-> 0, end |-> 65535]]
    ELSE IF av[2] = T_off
         THEN [ranges EXCEPT ![FindType(av[1])] = Sentinel]
    ELSE [ranges EXCEPT ![FindType(av[1])] = SetRange(av)]

\* what the command prints
BwOutput(ranges, av) ==
    IF Len(av) = 0 THEN [kind |-> "status", lines |-> StatusLines(ranges)]
    ELSE IF av[1] # T_off /\ FindType(av[1]) = DEBUGCNT
         THEN [kind |-> "error", lines |-> <<>>]
    ELSE [kind |-> "none", lines |-> <<>>]

BwNames == {"break", "watch"}

\* `off`, a proper prefix of a class name, and the class names
BwClassToks == {T_off, <<"m", "e", "m">>} \cup {debug_names[t] : t \in 0..(DEBUGCNT - 1)}

BwStartToks == {T_off, <<"5">>, <<"1", "f", "f", "f", "f">>}

BwEndToks == {<<"5">>}

BwArgs ==
    {<<>>} \cup {<<a>> : a \in BwClassToks}
           \cup {<<a, b>> : a \in BwClassToks, b \in BwStartToks}
           \cup {<<a, b, c>> : a \in BwClassToks, b \in BwStartToks, c \in BwEndToks}

\* one registry written by both commands
BreakwatchMerged(name, av) ==
    /\ breaks' = BwUpdate(IF name = "break" THEN breaks ELSE watches, av)
    /\ watches' = breaks'
    /\ bwOut' = BwOutput(IF name = "break" THEN breaks ELSE watches, av)
    /\ UNCHANGED notReg

Breakwatch(name, av) ==
    /\ IF name = "break"
       THEN UNCHANGED watches /\ breaks' = BwUpdate(breaks, av)
       ELSE UNCHANGED breaks /\ watches' = BwUpdate(watches, av)
    /\ bwOut' = BwOutput(IF name = "break" THEN breaks ELSE watches, av)
    /\ UNCHANGED notReg

InitBreak ==
    /\ IdleTransfer
    /\ image = 0
    /\ InitRegistry
    /\ NoCall
    /\ IdleBaud
    /\ IdleExec
    /\ IdleDispatch

NextBreak == \E name \in BwNames, av \in BwArgs : Breakwatch(name, av)

SpecBreak == InitBreak /\ [][NextBreak]_vars

(***************************************************************************)
(* The argument checks of the handlers                                     *)
(***************************************************************************)
MAXARGS == 8

\* the outcome of one handler call: whether the usage message was printed,
\* the argv indices read that the line did not supply (argv[argc] is the
\* NULL strtok returned, argv[k] beyond it was never set), and the kinds of
\* operation performed
Ran(name, argc, usage, reads, effects) ==
    [name |-> name, argc |-> argc, usage |-> usage,
     absent |-> {k \in reads : k >= argc}, effects |-> effects]

DumpCheck(argc) ==
    IF argc < 2 THEN Ran("dump", argc, TRUE, {0}, {})
    ELSE Ran("dump", argc, FALSE, {0, 1} \cup (IF argc < 3 THEN {} ELSE {2}), {"memory"})

FillCheck(argc) ==
    IF argc # 4 THEN Ran("fill", argc, TRUE, {}, {})
    ELSE Ran("fill", argc, FALSE, {0, 1, 2, 3}, {"memory"})

LoadbinCheck(argc) ==
    IF argc < 3 THEN Ran("loadbin", argc, TRUE, {0}, {})
    ELSE Ran("loadbin", argc, FALSE,
             {0, 1, 2} \cup (IF argc >= 4 THEN {3} ELSE {}) \cup (IF argc >= 5 THEN {4} ELSE {}),
             {"file", "memory"})

SavebinCheck(argc) ==
    IF argc < 4 THEN Ran("savebin", argc, TRUE, {}, {})
    ELSE Ran("savebin", argc, FALSE, {1, 2, 3}, {"file", "memory"})

SavehexCheck(argc) ==
    IF argc < 3 THEN Ran("savehex", argc, TRUE, {}, {})
    ELSE IF argc = 4 THEN Ran("savehex", argc, FALSE, {1, 2, 3}, {"file", "memory"})
    ELSE Ran("savehex", argc, FALSE, {1, 2}, {"memory"})

\* the usage message of cli_poke is not followed by a return
PokeCheck(argc) ==
    Ran("poke", argc, argc < 2, {1} \cup (IF argc = 3 THEN {2} ELSE {}), {"memory"})

\* cli_out tests argc < 2 and reads argv[2]
OutCheck(argc) ==
    IF argc < 2 THEN Ran("out", argc, TRUE, {}, {})
    ELSE Ran("out", argc, FALSE, {1, 2}, {"io"})

InCheck(argc) ==
    IF argc < 2 THEN Ran("in", argc, TRUE, {}, {})
    ELSE Ran("in", argc, FALSE, {1}, {"io"})

PageCheck(argc) ==
    IF argc < 2 THEN Ran("page", argc, TRUE, {}, {})
    ELSE Ran("page", argc, FALSE, {bank + 1 : bank \in {b \in 0..3 : b + 1 < argc}}, {"page"})

MountCheck(argc) ==
    IF argc # 3 THEN Ran("mount", argc, TRUE, {}, {})
    ELSE Ran("mount", argc, FALSE, {1, 2}, {"drive"})

UnmountCheck(argc) ==
    IF argc # 2 THEN Ran("unmount", argc, TRUE, {}, {})
    ELSE Ran("unmount", argc, FALSE, {1}, {"drive"})

AttachCheck(argc) ==
    IF argc # 3 THEN Ran("attach", argc, TRUE, {}, {})
    ELSE Ran("attach", argc, FALSE, {1, 2}, {"uart"})

BaudCheck(argc) ==
    IF argc # 3 THEN Ran("baud", argc, TRUE, {}, {})
    ELSE Ran("baud", argc, FALSE, {1, 2}, {"uart"})

DoCheck(argc) ==
    IF argc < 2 THEN Ran("do", argc, TRUE, {}, {})
    ELSE Ran("do", argc, FALSE, {1}, {"file"})

EraseCheck(argc) ==
    IF argc < 2 THEN Ran("erase", argc, TRUE, {}, {})
    ELSE Ran("erase", argc, FALSE, {1}, {"flash"})

\* cli_dispatch calls the handler with the argc tokens of the line
CliDump(argc) ==
    /\ call' = DumpCheck(argc)
    /\ UNCHANGED notArgs

CliFill(argc) ==
    /\ call' = FillCheck(argc)
    /\ UNCHANGED notArgs

CliLoadbin(argc) ==
    /\ call' = LoadbinCheck(argc)
    /\ UNCHANGED notArgs

CliSavebin(argc) ==
    /\ call' = SavebinCheck(argc)
    /\ UNCHANGED notArgs

CliSavehex(argc) ==
    /\ call' = SavehexCheck(argc)
    /\ UNCHANGED notArgs

CliPoke(argc) ==
    /\ call' = PokeCheck(argc)
    /\ UNCHANGED notArgs

CliOut(argc) ==
    /\ call' = OutCheck(argc)
    /\ UNCHANGED notArgs

CliIn(argc) ==
    /\ call' = InCheck(argc)
    /\ UNCHANGED notArgs

CliPage(argc) ==
    /\ call' = PageCheck(argc)
    /\ UNCHANGED notArgs

CliMount(argc) ==
    /\ call' = MountCheck(argc)
    /\ UNCHANGED notArgs

CliUnmount(argc) ==
    /\ call' = UnmountCheck(argc)
    /\ UNCHANGED notArgs

CliAttach(argc) ==
    /\ call' = AttachCheck(argc)
    /\ UNCHANGED notArgs

CliBaud(argc) ==
    /\ call' = BaudCheck(argc)
    /\ UNCHANGED notArgs

CliDo(argc) ==
    /\ call' = DoCheck(argc)
    /\ UNCHANGED notArgs

CliErase(argc) ==
    /\ call' = EraseCheck(argc)
    /\ UNCHANGED notArgs

InitArgs ==
    /\ IdleTransfer
    /\ image = 0
    /\ InitRegistry
    /\ NoCall
    /\ IdleBaud
    /\ IdleExec
    /\ IdleDispatch

NextArgs ==
    \E argc \in 1..MAXARGS :
        \/ CliDump(argc)
        \/ CliFill(argc)
        \/ CliLoadbin(argc)
        \/ CliSavebin(argc)
        \/ CliSavehex(argc)
        \/ CliPoke(argc)
        \/ CliOut(argc)
        \/ CliIn(argc)
        \/ CliPage(argc)
        \/ CliMount(argc)
        \/ CliUnmount(argc)
        \/ CliAttach(argc)
        \/ CliBaud(argc)
        \/ CliDo(argc)
        \/ CliErase(argc)

SpecArgs == InitArgs /\ [][NextArgs]_vars

(***************************************************************************)
(* cli_baud: the divisor search                                            *)
(***************************************************************************)
F_CPU == 20000000

\* actual = F_CPU / (16 * (ubrr + 1)), in uint32_t arithmetic
BaudRate(u) == F_CPU \div (16 * (u + 1))

\* a slip of the test below: < written for <=
RateReachedStrict(a, r) == a < r

\* if (actual <= requested) break;
RateReached(a, r) == a <= r

\* a register that saturates instead of wrapping to 0
NextUbrrSaturating(u) == IF u = 65535 THEN u ELSE u + 1

\* ubrr++ on the uint16_t register
NextUbrr(u) == U16(u + 1)

BaudUarts == {<<"0">>, <<"3">>}

BaudRates == {<<"0">>, <<"1", "8">>, <<"3", "0", "0">>, <<"9", "6", "0", "0">>,
              <<"1", "1", "5", "2", "0", "0">>}

BaudCall(u, r) ==
    /\ bpc = "idle"
    /\ bpc' = "search"
    /\ uart' = strtoul(u, 10) % 2
    /\ requested' = strtoul(r, 10)
    /\ ubrr' = 0
    /\ actual' = 0
    /\ UNCHANGED <<uartInit, notBaud>>

\* one iteration of the for (;;) loop
BaudStep ==
    /\ bpc = "search"
    /\ actual' = BaudRate(ubrr)
    /\ IF RateReached(BaudRate(ubrr), requested)
       THEN ubrr' = ubrr /\ bpc' = "found"
       ELSE /\ ubrr' = NextUbrr(ubrr)
            /\ bpc' = IF NextUbrr(ubrr) = 0 THEN "found" ELSE "search"
    /\ UNCHANGED <<uart, requested, uartInit, notBaud>>

\* printf of requested and actual, uart_flush, uart_init(uart, ubrr)
BaudInit ==
    /\ bpc = "found"
    /\ uartInit' = [uart |-> uart, ubrr |-> ubrr, requested |-> requested, actual |-> actual]
    /\ bpc' = "done"
    /\ UNCHANGED <<uart, requested, ubrr, actual, notBaud>>

InitBaud ==
    /\ IdleTransfer
    /\ image = 0
    /\ InitRegistry
    /\ NoCall
    /\ IdleBaud
    /\ IdleExec
    /\ IdleDispatch

NextBaud ==
    \/ \E u \in BaudUarts, r \in BaudRates : BaudCall(u, r)
    \/ BaudStep
    \/ BaudInit

SpecBaud == InitBaud /\ [][NextBaud]_vars

\* cli_baud, once called, runs on: nothing preempts a handler
FairBaud == SpecBaud /\ WF_vars(BaudStep \/ BaudInit)

(***************************************************************************)
(* Command files: main, cli_exec, cli_do                                   *)
(***************************************************************************)
AUTOEXEC == "autoexec.z8c"

\* `do` commands the operator may type in one run of the model
MaxCmds == 2

\* nested cli_exec calls the stack of the model holds
MaxDepth == 3

FileNames == {AUTOEXEC, "a.z8c", "b.z8c"}

Missing == [exists |-> FALSE, lines |-> <<>>]

File(lines) == [exists |-> TRUE, lines |-> lines]

\* the SD cards of the model: each maps a name to the lines of the file
Cards ==
    { [n \in FileNames |-> Missing],
      [n \in FileNames |->
          IF n = AUTOEXEC THEN File(<< <<"do", "a.z8c">>, <<"cls", "">> >>)
          ELSE IF n = "a.z8c" THEN File(<< <<"cls", "">>, <<"do", "b.z8c">> >>)
          ELSE Missing],
      [n \in FileNames |->
          IF n = "a.z8c" THEN File(<< <<"do", AUTOEXEC>> >>)
          ELSE IF n = "b.z8c" THEN File(<< <<"do", "b.z8c">> >>)
          ELSE Missing] }

\* the results f_open may give for a name
OpenResults(c, n) ==
    (IF c[n].exists THEN {"FR_OK"} ELSE {"FR_NO_FILE"}) \cup {"FR_DISK_ERR"}

\* a slip of the test below: && written for ||
ShowOpenErrorBoth(fr, filename) == fr # "FR_NO_FILE" /\ filename # AUTOEXEC

\* the test that guards the "error opening file" message of cli_exec
ShowOpenError(fr, filename) == fr # "FR_NO_FILE" \/ filename # AUTOEXEC

\* one f_open of cli_exec and whether "error opening file" was printed for it
Attempt(filename, origin, fr) ==
    [file |-> filename, origin |-> origin, fr |-> fr,
     reported |-> (fr # "FR_OK" /\ ShowOpenError(fr, filename))]

\* the f_open of cli_exec; fd numbers the FIL objects in the order of the calls
OpenEvent(filename, fr) ==
    [op |-> "f_open", file |-> filename, fr |-> fr, fd |-> Len(xlog) + 1]

\* the f_close of the cli_exec whose FIL object is fd
CloseEvent(filename, fd) ==
    [op |-> "f_close", file |-> filename, fr |-> "FR_OK", fd |-> fd]

\* cli_exec(filename): open the file and start reading it, or fail
Exec(filename, origin, fr) ==
    /\ attempts' = attempts \cup {Attempt(filename, origin, fr)}
    /\ xlog' = Append(xlog, OpenEvent(filename, fr))
    /\ IF fr = "FR_OK"
       THEN stack' = <<[file |-> filename, pos |-> 1, fd |-> Len(xlog) + 1]>> \o stack
       ELSE stack' = stack

\* main: cli_exec(AUTOEXEC) before cli_loop
Boot(fr) ==
    /\ phase = "boot"
    /\ fr \in OpenResults(card, AUTOEXEC)
    /\ Exec(AUTOEXEC, "boot", fr)
    /\ phase' = "loop"
    /\ UNCHANGED <<card, ncmds, notExec>>

\* cli_loop reads `do <file>`; cli_do calls cli_exec(argv[1])
UserDo(filename, fr) ==
    /\ phase = "loop"
    /\ stack = <<>>
    /\ ncmds < MaxCmds
    /\ fr \in OpenResults(card, filename)
    /\ ncmds' = ncmds + 1
    /\ Exec(filename, "do", fr)
    /\ UNCHANGED <<phase, card, notExec>>

\* one iteration of the fgets loop of cli_exec on a line that is a `do`
ExecDoLine(fr) ==
    /\ stack # <<>>
    /\ Len(stack) < MaxDepth
    /\ LET top == stack[1]
           lines == card[top.file].lines
       IN  /\ top.pos <= Len(lines)
           /\ lines[top.pos][1] = "do"
           /\ fr \in OpenResults(card, lines[top.pos][2])
           /\ attempts' = attempts \cup {Attempt(lines[top.pos][2], "do", fr)}
           /\ xlog' = Append(xlog, OpenEvent(lines[top.pos][2], fr))
           /\ stack' = (IF fr = "FR_OK"
                        THEN <<[file |-> lines[top.pos][2], pos |-> 1,
                                fd |-> Len(xlog) + 1]>>
                        ELSE <<>>)
                       \o <<[top EXCEPT !.pos = top.pos + 1]>> \o Tail(stack)
    /\ UNCHANGED <<phase, card, ncmds, notExec>>

\* one iteration of the fgets loop on any other command
ExecOtherLine ==
    /\ stack # <<>>
    /\ LET top == stack[1]
           lines == card[top.file].lines
       IN  /\ top.pos <= Len(lines)
           /\ lines[top.pos][1] # "do"
           /\ stack' = <<[top EXCEPT !.pos = top.pos + 1]>> \o Tail(stack)
    /\ UNCHANGED <<phase, card, ncmds, attempts, xlog, notExec>>

\* fgets returns NULL: f_close and return
ExecClose ==
    /\ stack # <<>>
    /\ stack[1].pos > Len(card[stack[1].file].lines)
    /\ xlog' = Append(xlog, CloseEvent(stack[1].file, stack[1].fd))
    /\ stack' = Tail(stack)
    /\ UNCHANGED <<phase, card, ncmds, attempts, notExec>>

InitExec ==
    /\ IdleTransfer
    /\ image = 0
    /\ InitRegistry
    /\ NoCall
    /\ IdleBaud
    /\ phase = "boot"
    /\ card \in Cards
    /\ stack = <<>>
    /\ attempts = {}
    /\ ncmds = 0
    /\ xlog = <<>>
    /\ IdleDispatch

NextExec ==
    \/ \E fr \in {"FR_OK", "FR_NO_FILE", "FR_DISK_ERR"} : Boot(fr)
    \/ \E n \in FileNames, fr \in {"FR_OK", "FR_NO_FILE", "FR_DISK_ERR"} : UserDo(n, fr)
    \/ \E fr \in {"FR_OK", "FR_NO_FILE", "FR_DISK_ERR"} : ExecDoLine(fr)
    \/ ExecOtherLine
    \/ ExecClose

SpecExec == InitExec /\ [][NextExec]_vars

\* a `do` line read by the deepest cli_exec the RAM holds: cli_do calls
\* cli_exec once more, whose frame (FIL, FILE, buf[MAXBUF]) runs the stack
\* into the data of the monitor; the call does not return to its caller
ExecOverflow ==
    /\ phase = "loop"
    /\ stack # <<>>
    /\ Len(stack) = MaxDepth
    /\ stack[1].pos <= Len(card[stack[1].file].lines)
    /\ card[stack[1].file].lines[stack[1].pos][1] = "do"
    /\ phase' = "overflow"
    /\ UNCHANGED <<card, stack, attempts, ncmds, xlog, notExec>>

NextRun ==
    \/ NextExec
    \/ ExecOverflow

\* a cli_exec that has been entered runs on: the monitor is single-threaded
\* and nothing preempts a command
FairExec == InitExec /\ [][NextRun]_vars /\ WF_vars(NextRun)

(***************************************************************************)
(* The handlers that open a file, one command in a run                     *)
(***************************************************************************)
InitFiles ==
    /\ IdleTransfer
    /\ image = 0
    /\ InitRegistry
    /\ NoCall
    /\ IdleBaud
    /\ IdleDispatch
    /\ phase \in {"boot", "loop"}
    /\ card \in Cards
    /\ stack = <<>>
    /\ attempts = {}
    /\ ncmds = 0
    /\ xlog = <<>>

\* main has run and no command file has been opened
NoCommandFile == phase = "loop" /\ xlog = <<>>

\* no transfer command has been typed
NoTransfer == pc = "idle"

\* the command typed is a transfer or, with no transfer started, a `do`
NextFiles ==
    \/ NoCommandFile /\ \E r \in SaveRanges, opened \in BOOLEAN :
                            SavebinCall(r[1], r[2], opened)
    \/ NoCommandFile /\ \E written \in BOOLEAN : SavebinChunk(written)
    \/ NoCommandFile /\ SavebinClose
    \/ NoCommandFile /\ \E name \in LoadNames, a \in LoadArgs, opened \in BOOLEAN,
                           sought \in BOOLEAN : LoadbinCall(name, a, opened, sought)
    \/ NoCommandFile /\ \E wasRead \in BOOLEAN : LoadbinChunk(wasRead)
    \/ NoCommandFile /\ LoadbinClose
    \/ NoCommandFile /\ \E argc \in 1..2, opened \in BOOLEAN : LoadhexCall(argc, opened)
    \/ NoCommandFile /\ \E argc \in 3..5, r \in SaveRanges, opened \in BOOLEAN :
                            SavehexCall(argc, r[1], r[2], opened)
    \/ NoCommandFile /\ \E failed \in BOOLEAN, closed \in BOOLEAN :
                            HexClose(failed, closed)
    \/ NoTransfer /\ \E fr \in {"FR_OK", "FR_NO_FILE", "FR_DISK_ERR"} : Boot(fr)
    \/ NoTransfer /\ \E n \in FileNames, fr \in {"FR_OK", "FR_NO_FILE", "FR_DISK_ERR"} :
                         UserDo(n, fr)
    \/ NoTransfer /\ \E fr \in {"FR_OK", "FR_NO_FILE", "FR_DISK_ERR"} : ExecDoLine(fr)
    \/ NoTransfer /\ ExecOtherLine
    \/ NoTransfer /\ ExecClose

SpecFiles == InitFiles /\ [][NextFiles]_vars

(***************************************************************************)
(* cli_loop and cli_dispatch                                               *)
(***************************************************************************)
WHITESPACE == {" ", "\t", "\r", "\n"}

MAXBUF == 80

\* the tables: each entry with TRUE when it stands under #ifdef IORQ_OUTPUT
cli_cmd_names ==
    << <<<<"a", "t", "t", "a", "c", "h">>, FALSE>>,
       <<<<"b", "a", "u", "d">>, FALSE>>,
       <<<<"b", "o", "o", "t">>, FALSE>>,
       <<<<"b", "u", "s">>, FALSE>>,
       <<<<"b", "r", "e", "a", "k">>, FALSE>>,
       <<<<"c">>, FALSE>>,
       <<<<"c", "l", "k", "d", "i", "v">>, FALSE>>,
       <<<<"c", "l", "s">>, FALSE>>,
       <<<<"d", "e", "b", "u", "g">>, FALSE>>,
       <<<<"d", "i", "r">>, FALSE>>,
       <<<<"d", "i", "s", "a", "s", "m">>, FALSE>>,
       <<<<"d", "o">>, FALSE>>,
       <<<<"d", "u", "m", "p">>, FALSE>>,
       <<<<"e", "r", "a", "s", "e">>, TRUE>>,
       <<<<"f", "i", "l", "l">>, FALSE>>,
       <<<<"f", "l", "a", "s", "h">>, TRUE>>,
       <<<<"h", "e", "l", "p">>, FALSE>>,
       <<<<"i", "n">>, TRUE>>,
       <<<<"l", "o", "a", "d", "b", "i", "n">>, FALSE>>,
       <<<<"l", "o", "a", "d", "h", "e", "x">>, FALSE>>,
       <<<<"m", "o", "u", "n", "t">>, FALSE>>,
       <<<<"o", "u", "t">>, TRUE>>,
       <<<<"p", "a", "g", "e">>, TRUE>>,
       <<<<"p", "o", "k", "e">>, FALSE>>,
       <<<<"r", "u", "n">>, FALSE>>,
       <<<<"r", "e", "s", "e", "t">>, FALSE>>,
       <<<<"s", "a", "v", "e", "b", "i", "n">>, FALSE>>,
       <<<<"s", "a", "v", "e", "h", "e", "x">>, FALSE>>,
       <<<<"s">>, FALSE>>,
       <<<<"s", "t", "e", "p">>, FALSE>>,
       <<<<"t", "m", "s", "d", "u", "m", "p">>, FALSE>>,
       <<<<"t", "m", "s", "f", "i", "l", "l">>, FALSE>>,
       <<<<"t", "m", "s", "l", "b", "i", "n">>, FALSE>>,
       <<<<"u", "n", "m", "o", "u", "n", "t">>, FALSE>>,
       <<<<"w", "a", "t", "c", "h">>, FALSE>> >>

cli_cmd_functions ==
    << <<"cli_attach", FALSE>>,
       <<"cli_baud", FALSE>>,
       <<"cli_boot", FALSE>>,
       <<"cli_bus", FALSE>>,
       <<"cli_breakwatch", FALSE>>,
       <<"cli_debug", FALSE>>,
       <<"cli_clkdiv", FALSE>>,
       <<"cli_cls", FALSE>>,
       <<"cli_debug", FALSE>>,
       <<"cli_dir", FALSE>>,
       <<"cli_disasm", FALSE>>,
       <<"cli_do", FALSE>>,
       <<"cli_dump", FALSE>>,
       <<"cli_erase", TRUE>>,
       <<"cli_fill", FALSE>>,
       <<"cli_loadbin", TRUE>>,
       <<"cli_help", FALSE>>,
       <<"cli_in", TRUE>>,
       <<"cli_loadbin", FALSE>>,
       <<"cli_loadhex", FALSE>>,
       <<"cli_mount", FALSE>>,
       <<"cli_out", TRUE>>,
       <<"cli_page", TRUE>>,
       <<"cli_poke", FALSE>>,
       <<"cli_run", FALSE>>,
       <<"cli_reset", FALSE>>,
       <<"cli_savebin", FALSE>>,
       <<"cli_savehex", FALSE>>,
       <<"cli_step", FALSE>>,
       <<"cli_step", FALSE>>,
       <<"cli_dump", FALSE>>,
       <<"cli_fill", FALSE>>,
       <<"cli_loadbin", FALSE>>,
       <<"cli_unmount", FALSE>>,
       <<"cli_breakwatch", FALSE>> >>

\* the entries of a table the build q compiles
Built(tbl, q) ==
    LET Compiled(entry) == ~entry[2] \/ q
    IN  SelectSeq(tbl, Compiled)

\* strlookup(table, k): entry k of a compiled table, counted from 0
strlookup(tbl, k) == tbl[k + 1][1]

NUM_CMDS(q) == Len(Built(cli_cmd_functions, q))

\* the texts of cli_cmd_help, each with the command its trailing comment
\* names
HelpText ==
    << <<"attach virtual uart to physical uart", <<"a", "t", "t", "a", "c", "h">>>>,
       <<"configure UART baud rate", <<"b", "a", "u", "d">>>>,
       <<"boot from specified disk image", <<"b", "o", "o", "t">>>>,
       <<"display low-level bus status", <<"b", "u", "s">>>>,
       <<"set breakpoints", <<"b", "r", "e", "a", "k">>>>,
       <<"shorthand to continue debugging", <<"c">>>>,
       <<"set Z80 clock divider", <<"c", "l", "k", "d", "i", "v">>>>,
       <<"clear screen", <<"c", "l", "s">>>>,
       <<"debug code at address", <<"d", "e", "b", "u", "g">>>>,
       <<"shows directory listing", <<"d", "i", "r">>>>,
       <<"disassembles memory location", <<"d", "i", "s", "a", "s", "m">>>>,
       <<"exeucte a batch file", <<"d", "o">>>>,
       <<"dump memory in hex and ascii", <<"d", "u", "m", "p">>>>,
       <<"erase flash ROM", <<"e", "r", "a", "s", "e">>>>,
       <<"fill memory with byte", <<"f", "i", "l", "l">>>>,
       <<"flash file to ROM", <<"f", "l", "a", "s", "h">>>>,
       <<"list available commands", <<"h", "e", "l", "p">>>>,
       <<"read a value from a port", <<"i", "n">>>>,
       <<"load binary file to memory", <<"l", "o", "a", "d", "b", "i", "n">>>>,
       <<"load intel hex file to memory", <<"l", "o", "a", "d", "h", "e", "x">>>>,
       <<"mount a disk image", <<"m", "o", "u", "n", "t">>>>,
       <<"write a value to a port", <<"o", "u", "t">>>>,
       <<"select active memory pages", <<"p", "a", "g", "e">>>>,
       <<"poke values into memory", <<"p", "o", "k", "e">>>>,
       <<"execute code at address", <<"r", "u", "n">>>>,
       <<"reset the processor, with optional vector", <<"r", "e", "s", "e", "t">>>>,
       <<"save binary file from memory", <<"s", "a", "v", "e", "b", "i", "n">>>>,
       <<"save intel hex file from memory", <<"s", "a", "v", "e", "h", "e", "x">>>>,
       <<"shorthand for step", <<"s">>>>,
       <<"step processor N cycles", <<"s", "t", "e", "p">>>>,
       <<"dump tms memory in hex and ascii", <<"t", "m", "s", "d", "u", "m", "p">>>>,
       <<"fill tms memory with byte", <<"t", "m", "s", "f", "i", "l", "l">>>>,
       <<"load binary file to tms memory", <<"t", "m", "s", "l", "b", "i", "n">>>>,
       <<"unmount a disk image", <<"u", "n", "m", "o", "u", "n", "t">>>>,
       <<"set watch points", <<"w", "a", "t", "c", "h">>>> >>

\* the help table with the #ifdef around the text of `in` left out
HelpIfdefButIn(k) == k \in {14, 16, 22, 23}

\* entry k of cli_cmd_help stands under #ifdef IORQ_OUTPUT
HelpIfdef(k) == k \in {14, 16, 18, 22, 23}

cli_cmd_help ==
    [k \in 1..Len(HelpText) |-> <<HelpText[k][1], HelpIfdef(k), HelpText[k][2]>>]

\* the handlers cli.c defines, in the order of their definitions, each with
\* the command names it is written for: its own name, the names its tests
\* of argv[0] tell apart, and the shorthands `c` and `s`
Handlers ==
    << <<"cli_loadhex", {<<"l", "o", "a", "d", "h", "e", "x">>}>>,
       <<"cli_savehex", {<<"s", "a", "v", "e", "h", "e", "x">>}>>,
       <<"cli_loadbin", {<<"l", "o", "a", "d", "b", "i", "n">>, <<"f", "l", "a", "s", "h">>, <<"t", "m", "s", "l", "b", "i", "n">>}>>,
       <<"cli_erase", {<<"e", "r", "a", "s", "e">>}>>,
       <<"cli_savebin", {<<"s", "a", "v", "e", "b", "i", "n">>}>>,
       <<"cli_disasm", {<<"d", "i", "s", "a", "s", "m">>}>>,
       <<"cli_dump", {<<"d", "u", "m", "p">>, <<"t", "m", "s", "d", "u", "m", "p">>}>>,
       <<"cli_run", {<<"r", "u", "n">>}>>,
       <<"cli_reset", {<<"r", "e", "s", "e", "t">>}>>,
       <<"cli_debug", {<<"d", "e", "b", "u", "g">>, <<"c">>}>>,
       <<"cli_step", {<<"s", "t", "e", "p">>, <<"s">>}>>,
       <<"cli_clkdiv", {<<"c", "l", "k", "d", "i", "v">>}>>,
       <<"cli_breakwatch", {<<"b", "r", "e", "a", "k">>, <<"w", "a", "t", "c", "h">>}>>,
       <<"cli_dir", {<<"d", "i", "r">>}>>,
       <<"cli_fill", {<<"f", "i", "l", "l">>, <<"t", "m", "s", "f", "i", "l", "l">>}>>,
       <<"cli_poke", {<<"p", "o", "k", "e">>}>>,
       <<"cli_out", {<<"o", "u", "t">>}>>,
       <<"cli_in", {<<"i", "n">>}>>,
       <<"cli_page", {<<"p", "a", "g", "e">>}>>,
       <<"cli_boot", {<<"b", "o", "o", "t">>}>>,
       <<"cli_bus", {<<"b", "u", "s">>}>>,
       <<"cli_mount", {<<"m", "o", "u", "n", "t">>}>>,
       <<"cli_unmount", {<<"u", "n", "m", "o", "u", "n", "t">>}>>,
       <<"cli_attach", {<<"a", "t", "t", "a", "c", "h">>}>>,
       <<"cli_baud", {<<"b", "a", "u", "d">>}>>,
       <<"cli_cls", {<<"c", "l", "s">>}>>,
       <<"cli_do", {<<"d", "o">>}>>,
       <<"cli_help", {<<"h", "e", "l", "p">>}>> >>

\* the handler written for a command name
HandlerOf(name) ==
    Handlers[CHOOSE k \in 1..Len(Handlers) : name \in Handlers[k][2]][1]

\* the command a help text is written for
TextFor(text) ==
    HelpText[CHOOSE k \in 1..Len(HelpText) : HelpText[k][1] = text][2]

\* cli_help in build q: the lines printed after "available commands:", each
\* a name and a help text
cli_help(q) ==
    [k \in 1..NUM_CMDS(q) |->
        <<strlookup(Built(cli_cmd_names, q), k - 1),
          strlookup(Built(cli_cmd_help, q), k - 1)>>]

\* a scan that does not pass over leading delimiters
SkipDelimsNot(s, p) == p

RECURSIVE SkipDelims(_, _)
\* the first position from p on that holds no delimiter
SkipDelims(s, p) ==
    IF p <= Len(s) /\ s[p] \in WHITESPACE THEN SkipDelims(s, p + 1) ELSE p

RECURSIVE TokenEnd(_, _)
\* the first position from p on that holds a delimiter or lies past the end
TokenEnd(s, p) ==
    IF p <= Len(s) /\ s[p] \notin WHITESPACE THEN TokenEnd(s, p + 1) ELSE p

\* strtok on buffer s with the scan resuming at position p: NULL, or the
\* token and the position the next call resumes at
strtok(s, p) ==
    LET b == SkipDelims(s, p)
        e == TokenEnd(s, b)
    IN  IF b > Len(s)
        THEN [null |-> TRUE, tok |-> <<>>, save |-> b]
        ELSE [null |-> FALSE, tok |-> SubSeq(s, b, e - 1),
              save |-> IF e > Len(s) THEN e ELSE e + 1]

\* a loop that takes every token the buffer holds
ArgsLeftUnbounded(argc) == argc < MAXBUF

\* argc < MAXARGS, the test of the loop below
ArgsLeft(argc) == argc < MAXARGS

RECURSIVE ScanArgs(_, _, _)
\* for (argc = 1; argc < MAXARGS; argc++) argv[argc] = strtok(NULL, ...)
ScanArgs(s, av, p) ==
    IF ArgsLeft(Len(av))
    THEN LET t == strtok(s, p)
         IN  IF t.null THEN av ELSE ScanArgs(s, Append(av, t.tok), t.save)
    ELSE av

\* a comparison that accepts the leading characters of a name
NameMatchesPrefix(tok, name) ==
    Len(tok) <= Len(name) /\ tok = SubSeq(name, 1, Len(tok))

\* strcmp_P(argv[0], name) == 0
NameMatches(tok, name) == tok = name

\* the index i the lookup loop ends with: NUM_CMDS when no name matches
FindCmd(tok, q) ==
    LET hits == {k \in 0..(NUM_CMDS(q) - 1) :
                    NameMatches(tok, strlookup(Built(cli_cmd_names, q), k))}
    IN  IF hits = {} THEN NUM_CMDS(q)
        ELSE CHOOSE k \in hits : \A j \in hits : k <= j

\* no handler was called and nothing was printed for buffer b
NoDispatch(b) ==
    [buf |-> b, kind |-> "none", index |-> 0, func |-> "", argc |-> 0, argv |-> <<>>,
     msg |-> <<>>]

\* cli_dispatch(buf) in build q: nothing, "unknown command", or a handler call
cli_dispatch(b, q) ==
    LET t == strtok(b, 1)
    IN  IF t.null THEN NoDispatch(b)
        ELSE LET av == ScanArgs(b, <<t.tok>>, t.save)
                 k == FindCmd(av[1], q)
             IN  IF k = NUM_CMDS(q)
                 THEN [buf |-> b, kind |-> "unknown", index |-> k, func |-> "",
                       argc |-> 0, argv |-> <<>>, msg |-> av[1]]
                 ELSE [buf |-> b, kind |-> "call", index |-> k,
                       func |-> strlookup(Built(cli_cmd_functions, q), k),
                       argc |-> Len(av), argv |-> av, msg |-> <<>>]

\* the characters fgets(buf, sizeof buf - 1, stdin) takes from s: through
\* the first newline, at most MAXBUF - 2 of them
FgetsLen(s) ==
    LET nl == {p \in 1..Len(s) : s[p] = "\n"}
        upto == IF nl = {} THEN Len(s) ELSE CHOOSE p \in nl : \A r \in nl : p <= r
    IN  IF upto > MAXBUF - 2 THEN MAXBUF - 2 ELSE upto

\* n blanks
Pad(n) == [k \in 1..n |-> " "]

RECURSIVE Join(_, _)
Join(toks, sep) ==
    IF toks = <<>> THEN <<>>
    ELSE IF Len(toks) = 1 THEN toks[1]
    ELSE toks[1] \o sep \o Join(Tail(toks), sep)

\* first tokens typed: names, names in another case, prefixes, extensions
FirstToks ==
    { <<"d", "u", "m", "p">>,
      <<"D", "U", "M", "P">>,
      <<"d", "u", "m">>,
      <<"d", "u", "m", "p", "x">>,
      <<"s">>,
      <<"s", "t">>,
      <<"c">>,
      <<"d", "o">>,
      <<"f", "l", "a", "s", "h">>,
      <<"o", "u", "t">>,
      <<"w", "a", "t", "c", "h">> }

\* the tokens typed after the first one
ArgToks == << <<"0">>, <<"f">>, <<"1">>, <<"2">>, <<"3">>, <<"4">>, <<"5">>, <<"6">>,
              <<"7", "f">> >>

Blank == { <<>>, <<" ">>, <<"\t">>, <<"\r">>, <<" ", "\t", "\r">>, Pad(100) }

\* the lines typed, without their newline
Lines ==
    { lead \o Join(<<first>> \o SubSeq(ArgToks, 1, n), sep) \o trail :
         lead \in {<<>>, <<" ">>}, first \in FirstToks, n \in 0..Len(ArgToks),
         sep \in {<<" ">>, <<"\t", " ">>}, trail \in {<<>>, <<"\r">>} }
    \cup Blank
    \cup { <<"d", "u", "m", "p">> \o Pad(76) \o <<"0", " ", "f">>,
           <<"x", "y", "z">> \o Pad(76) \o <<"c", "l", "s">> }

\* the prompt is out and the operator types a line, ended by a newline
TypeLine(l) ==
    /\ stdin = <<>>
    /\ stdin' = l \o <<"\n">>
    /\ disp' = NoDispatch(<<>>)
    /\ UNCHANGED <<iorq, notDisp>>

\* one pass of the for (;;) of cli_loop: fgets, then cli_dispatch(buf)
LoopStep ==
    /\ stdin # <<>>
    /\ stdin' = SubSeq(stdin, FgetsLen(stdin) + 1, Len(stdin))
    /\ disp' = cli_dispatch(SubSeq(stdin, 1, FgetsLen(stdin)), iorq)
    /\ UNCHANGED <<iorq, notDisp>>

InitDispatch ==
    /\ IdleTransfer
    /\ image = 0
    /\ InitRegistry
    /\ NoCall
    /\ IdleBaud
    /\ IdleExec
    /\ iorq \in BOOLEAN
    /\ stdin = <<>>
    /\ disp = NoDispatch(<<>>)

NextDispatch ==
    \/ \E l \in Lines : TypeLine(l)
    \/ LoopStep

SpecDispatch == InitDispatch /\ [][NextDispatch]_vars

(***************************************************************************)
(* Properties                                                              *)
(***************************************************************************)
IsMemOp(o) == o.tgt \in {"bus", "tms"}

IsRead(o) == o.op = "read"

IsOwnWrite(o) == o.op = "write" /\ o.tgt = (IF argv0 = "tmsfill" THEN "tms" ELSE "bus")

RECURSIVE SumLen(_)
SumLen(seq) == IF seq = <<>> THEN 0 ELSE seq[1].len + SumLen(Tail(seq))

\* number of bytes of the inclusive range the handler was called with
RangeLen == args.end - args.start + 1

\* C1: for every fill mode and start <= end, cli_fill's chunk writes have
\* lengths that sum to end-start+1, every non-final chunk is the whole
\* 256-byte pattern, and the final chunk is (end-start+1) mod 256 bytes, or
\* 256 when that is 0: no chunk is longer than the pattern buffer.
C1_FillTiling ==
    (pc = "done" /\ argv0 \in FillNames /\ args.start <= args.end) =>
        LET w == SelectSeq(ops, IsOwnWrite)
            n == Len(w)
        IN  /\ n >= 1
            /\ SumLen(w) = RangeLen
            /\ \A k \in 1..(n - 1) : w[k].data = buf
            /\ w[n].len = (IF RangeLen % 256 = 0 THEN 256 ELSE RangeLen % 256)
            /\ w[n].data = SubSeq(buf, 1, w[n].len)
            /\ \A k \in 1..n : w[k].len <= 256

\* C2: every chunk of cli_fill is written by one write call to one target:
\* video memory for tmsfill, bus memory for fill; tmsfill never writes bus
\* memory and fill never writes video memory.
C2_FillOneTarget ==
    (argv0 \in FillNames) =>
        /\ \A k \in 1..Len(ops) :
              ops[k].tgt = (IF argv0 = "tmsfill" THEN "tms" ELSE "bus")
        /\ \A k \in 1..Len(ops), m \in 1..Len(ops) :
              ops[k].addr = ops[m].addr => k = m

\* C3: a range-taking transfer called with start > end transfers nothing:
\* it issues no read and no write of any memory target.
C3_InvertedRangeNoOp ==
    (argv0 \in FillNames \cup DumpNames \cup {"savebin", "verify_mem"}
        /\ args.start > args.end) =>
        \A k \in 1..Len(ops) : ~IsMemOp(ops[k])

\* C4: for start <= end, verify_mem returns the number of addresses a in
\* [start, end] whose target byte differs from src[a].
C4_VerifyCount ==
    (pc = "done" /\ argv0 = "verify_mem" /\ args.start <= args.end) =>
        errors = Cardinality({a \in args.start..args.end :
                                 MemAt("bus", a) # SrcAt(src, a)})

\* C6: every range-iterating command runs to completion, for every 16-bit
\* start and end (a failed file write ends savebin as well).
C6_Terminates == <>(pc = "done")

\* C10: for start <= end and successful file writes, cli_savebin reads the
\* target in consecutive chunks of 1..256 bytes at ascending addresses from
\* start, never outside [start, end], and on return the chunk lengths sum
\* to end-start+1.
C10_SavebinChunks ==
    (argv0 = "savebin" /\ args.start <= args.end) =>
        LET r == SelectSeq(ops, IsRead)
            n == Len(r)
        IN  /\ \A k \in 1..n :
                  /\ r[k].len \in 1..256
                  /\ r[k].addr = (IF k = 1 THEN args.start
                                  ELSE r[k - 1].addr + r[k - 1].len)
                  /\ r[k].addr + r[k].len - 1 <= args.end
            /\ (pc = "done" /\ fil = "closed"
                  /\ \A k \in 1..Len(ops) : ops[k].res = "ok")
               => SumLen(r) = RangeLen

\* C5: every range of both registries is enabled with start <= end or is
\* exactly the sentinel (0xFFFF, 0x0000), after any sequence of commands.
C5_RangesWellFormed ==
    \A t \in 0..(DEBUGCNT - 1) :
        /\ (breaks[t].start <= breaks[t].end \/ breaks[t] = Sentinel)
        /\ (watches[t].start <= watches[t].end \/ watches[t] = Sentinel)

\* C7: a handler never reads an argument the line did not supply, and a
\* call that prints the usage message performs no operation.
C7_MissingArgsAbort ==
    /\ call.absent = {}
    /\ call.usage => call.effects = {}

\* C8: the divisor handed to uart_init is the one the reported actual rate
\* was computed for, and when no 16-bit divisor gives actual <= requested it
\* is the largest divisor tried (65535), not a wrapped-around value.
C8_DivisorMatchesActual ==
    bpc = "done" =>
        /\ uartInit.actual = F_CPU \div (16 * (uartInit.ubrr + 1))
        /\ (F_CPU \div (16 * 65536) > uartInit.requested => uartInit.ubrr = 65535)

\* C9 as stated: an open failure of a command file is reported in every
\* case but one, file-not-found for the bootstrap file attempted at process
\* start; every open failure of a file requested through `do` is reported.
C9_OnlyBootSuppressed ==
    \A a \in attempts :
        a.fr # "FR_OK" =>
            (a.reported <=> ~(a.origin = "boot" /\ a.fr = "FR_NO_FILE"))

\* C9 as amended: an open failure of a command file is reported in every
\* case but one, file-not-found for a file named autoexec.z8c, be it the
\* attempt at process start or a `do autoexec.z8c`; a successful open
\* reports nothing.
C9_SuppressedByName ==
    \A a \in attempts :
        /\ a.origin = "boot" => a.file = AUTOEXEC
        /\ a.fr = "FR_OK" => ~a.reported
        /\ a.fr # "FR_OK" =>
              (a.reported <=> ~(a.file = AUTOEXEC /\ a.fr = "FR_NO_FILE"))

\* a `do autoexec.z8c` whose file is missing went unreported, the missing
\* bootstrap file at process start went unreported, and another failed
\* open was reported
C9_Witness ==
    /\ \E a \in attempts :
          a.origin = "do" /\ a.file = AUTOEXEC /\ a.fr = "FR_NO_FILE" /\ ~a.reported
    /\ \E a \in attempts :
          a.origin = "boot" /\ a.fr = "FR_NO_FILE" /\ ~a.reported
    /\ \E a \in attempts :
          a.origin = "do" /\ a.file # AUTOEXEC /\ a.fr = "FR_NO_FILE" /\ a.reported

IsWrite(o) == o.op = "write"

\* the bytes the source holds from the given offset on
Avail == IF fsize > args.offset THEN fsize - args.offset ELSE 0

NoFileError == \A k \in 1..Len(ops) : ops[k].res = "ok"

C12_SearchTerminates ==
    /\ (bpc = "search") ~> (bpc = "done")
    /\ [][bpc = "search" /\ bpc' = "search" => ubrr' = ubrr + 1 /\ ubrr' <= 65535]_vars

\* the search for a rate no divisor reaches has ended
C12_Witness ==
    /\ bpc = "done"
    /\ \A d \in {0, 65535} : BaudRate(d) > uartInit.requested
    /\ uartInit.actual = BaudRate(65535)

\* C17: whenever some divisor d of 0..65535 gives F_CPU / (16 * (d + 1)) <=
\* requested, the search hands the smallest such d to uart_init and reports
\* actual = F_CPU / (16 * (d + 1)) <= requested; for requested = 115200 it
\* ends with actual <= 115200.
C17_SmallestDivisor ==
    bpc = "done" =>
        /\ (F_CPU \div (16 * 65536) <= uartInit.requested =>
              /\ uartInit.actual = F_CPU \div (16 * (uartInit.ubrr + 1))
              /\ uartInit.actual <= uartInit.requested
              /\ \A d \in 0..(uartInit.ubrr - 1) :
                    F_CPU \div (16 * (d + 1)) > uartInit.requested)
        /\ (uartInit.requested = 115200 => uartInit.actual <= 115200)

\* the search for 300 baud has ended: 4152 is the first divisor whose rate,
\* 300 after the integer division, does not exceed the request
C17_Witness ==
    /\ bpc = "done"
    /\ uartInit.requested = 300
    /\ uartInit.ubrr = 4152
    /\ uartInit.actual = 300

\* position p of buffer b starts a run of characters that are not whitespace
IsStart(b, p) == b[p] \notin WHITESPACE /\ (p = 1 \/ b[p - 1] \in WHITESPACE)

\* the last position of the run that starts at p
RunEnd(b, p) ==
    CHOOSE q \in p..Len(b) :
        /\ \A r \in p..q : b[r] \notin WHITESPACE
        /\ q = Len(b) \/ b[q + 1] \in WHITESPACE

\* the whitespace-separated tokens of buffer b, in order
Words(b) ==
    LET S == {p \in 1..Len(b) : IsStart(b, p)}
        nth(k) == CHOOSE p \in S : Cardinality({r \in S : r < p}) = k - 1
    IN  [k \in 1..Cardinality(S) |-> SubSeq(b, nth(k), RunEnd(b, nth(k)))]

\* tok is a name of the command table of build q
InTable(tok, q) ==
    \E k \in 1..Len(Built(cli_cmd_names, q)) : Built(cli_cmd_names, q)[k][1] = tok

\* the buffer the next fgets fills holds whitespace only
NextBufferBlank ==
    stdin # <<>> /\ \A p \in 1..FgetsLen(stdin) : stdin[p] \in WHITESPACE

\* C13: for a line of n >= 1 whitespace-separated tokens whose first token
\* is a table name, cli_dispatch calls the handler at that name's index with
\* argc = min(n, 8) and argv the first argc tokens in order, argv[0] the
\* command name; the tokens after the eighth are ignored.
C13_DispatchArgs ==
    LET w == Words(disp.buf)
    IN  (w # <<>> /\ InTable(w[1], iorq)) =>
            /\ disp.kind = "call"
            /\ strlookup(Built(cli_cmd_names, iorq), disp.index) = w[1]
            /\ disp.func = strlookup(Built(cli_cmd_functions, iorq), disp.index)
            /\ disp.argc = (IF Len(w) < 8 THEN Len(w) ELSE 8)
            /\ disp.argv = SubSeq(w, 1, disp.argc)
            /\ disp.argv[1] = w[1]

\* `dump` followed by nine arguments was dispatched with argc = 8
C13_Witness ==
    /\ disp.kind = "call"
    /\ disp.func = "cli_dump"
    /\ Len(Words(disp.buf)) = 10
    /\ disp.argc = 8
    /\ disp.argv[8] = <<"5">>

\* C18: a line that is empty or holds only whitespace (space, tab, CR, LF)
\* is not dispatched: no handler is called, no message is printed and no
\* monitor state changes.
C18_BlankLineNoOp ==
    [][NextBufferBlank =>
          /\ disp'.kind = "none"
          /\ disp'.func = ""
          /\ disp'.msg = <<>>
          /\ UNCHANGED <<iorq, notDisp>>]_vars

\* a buffer of blank, tab, CR and newline went through cli_dispatch
C18_Witness ==
    /\ disp.buf = <<" ", "\t", "\r", "\n">>
    /\ disp.kind = "none"
    /\ stdin = <<>>

\* C19: a line whose first token equals no table name exactly (another
\* case, a proper prefix of a name, ...) calls no handler and changes no
\* monitor state; "unknown command" is printed with the token and cli_loop
\* goes on to read the next line.
C19_UnknownCommand ==
    /\ [](LET w == Words(disp.buf)
          IN  (w # <<>> /\ ~InTable(w[1], iorq)) =>
                  /\ disp.kind = "unknown"
                  /\ disp.func = ""
                  /\ disp.msg = w[1]
                  /\ ENABLED NextDispatch)
    /\ [][(disp'.kind = "unknown") => UNCHANGED <<iorq, notDisp>>]_vars

\* `dum`, a proper prefix of `dump`, was reported unknown, with arguments
\* after it
C19_Witness ==
    /\ disp.kind = "unknown"
    /\ disp.msg = <<"d", "u", "m">>
    /\ Len(Words(disp.buf)) = 3
    /\ stdin = <<>>

IsOpen(o) == o.op = "f_open"

IsClose(o) == o.op = "f_close"

\* the FIL objects of the cli_exec calls that have not returned
Running == {stack[k].fd : k \in 1..Len(stack)}

\* C14: in loadhex, savehex, loadbin, savebin and cli_exec a file that was
\* opened is closed exactly once before the handler returns, whichever way
\* it leaves (end of the transfer, seek, read or write error), never before
\* that, and a file whose open failed is never closed.
C14_OpenedThenClosed ==
    /\ LET opens == SelectSeq(ops, IsOpen)
           closes == {k \in 1..Len(ops) : IsClose(ops[k])}
       IN  /\ Len(opens) <= 1
           /\ Cardinality(closes) <= 1
           /\ \A k \in closes : opens # <<>> /\ opens[1].res = "ok" /\ IsOpen(ops[1])
           /\ (pc = "done" /\ opens # <<>> /\ opens[1].res = "ok") =>
                 Cardinality(closes) = 1
    /\ \A k \in 1..Len(xlog) :
          LET closes == {j \in 1..Len(xlog) : IsClose(xlog[j]) /\ xlog[j].fd = k}
          IN  IF IsOpen(xlog[k]) /\ xlog[k].fr = "FR_OK"
              THEN /\ \A j \in closes : j > k
                   /\ Cardinality(closes) = (IF k \in Running THEN 0 ELSE 1)
              ELSE closes = {}

\* a loadbin that failed to seek has returned with its file closed
C14_Witness ==
    /\ argv0 \in LoadNames
    /\ pc = "done"
    /\ \E k \in 1..Len(ops) : ops[k].op = "f_lseek" /\ ops[k].res = "err"
    /\ \E k \in 1..Len(ops) : IsClose(ops[k])

\* the registry a break / watch command selects, before and after the step
RegBefore(name) == IF name = "break" THEN breaks ELSE watches

RegAfter(name) == IF name = "break" THEN breaks' ELSE watches'

IsClass(tok) == \E t \in 0..(DEBUGCNT - 1) : debug_names[t] = tok

ClassOf(tok) == CHOOSE t \in 0..(DEBUGCNT - 1) : debug_names[t] = tok

\* C15: a break / watch command that names a class sets the range of that
\* class in the selected registry to [start, end] when both addresses are
\* given, [start, start] when the end is left out, [0x0000, 0xFFFF] when no
\* address is given, and the sentinel when `off` follows the class.
C15_SetRange ==
    [][\A name \in BwNames, av \in BwArgs :
          (Len(av) >= 1 /\ IsClass(av[1]) /\ Breakwatch(name, av)) =>
              RegAfter(name)[ClassOf(av[1])] =
                  (IF Len(av) = 1 THEN [start |-> 0, end |-> 65535]
                   ELSE IF av[2] = T_off THEN [start |-> 65535, end |-> 0]
                   ELSE IF Len(av) = 2 THEN [start |-> Addr(av[2]), end |-> Addr(av[2])]
                   ELSE [start |-> Addr(av[2]), end |-> Addr(av[3])])]_vars

\* one class of the break registry holds the single address 5, one class of
\* the watch registry the full address space
C15_Witness ==
    /\ breaks[0] = [start |-> 5, end |-> 5]
    /\ watches[1] = [start |-> 0, end |-> 65535]
    /\ breaks[1] = [start |-> 65535, end |-> 5]

\* C16: from any registry state `break off` (`watch off`) sets every class
\* of that registry to the sentinel, and a status query that follows shows
\* every class of that registry as disabled, never a stale range.
C16_OffDisablesAll ==
    [][\A name \in BwNames, av \in BwArgs :
          /\ (Len(av) >= 1 /\ av[1] = T_off /\ Breakwatch(name, av)) =>
                \A t \in 0..(DEBUGCNT - 1) : RegAfter(name)[t] = Sentinel
          /\ (av = <<>> /\ (\A t \in 0..(DEBUGCNT - 1) : RegBefore(name)[t] = Sentinel)
                 /\ Breakwatch(name, av)) =>
                /\ bwOut'.kind = "status"
                /\ Len(bwOut'.lines) = DEBUGCNT
                /\ \A k \in 1..DEBUGCNT : bwOut'.lines[k].text = "disabled"]_vars

\* the status of the break registry shows every class disabled while the
\* watch registry holds ranges: `break` after `break off`
C16_Witness ==
    /\ bwOut.kind = "status"
    /\ \A k \in 1..DEBUGCNT : bwOut.lines[k].text = "disabled"
    /\ \A t \in 0..(DEBUGCNT - 1) : breaks[t] = Sentinel
    /\ \A t \in 0..(DEBUGCNT - 1) : Enabled(watches[t])

\* C20: a break / watch command whose class argument is neither `off` nor
\* exactly a debug class name is reported as an error and changes no range
\* of either registry, whatever arguments follow.
C20_UnknownClass ==
    [][\A name \in BwNames, av \in BwArgs :
          (Len(av) >= 1 /\ av[1] # T_off /\ ~IsClass(av[1]) /\ Breakwatch(name, av)) =>
              /\ bwOut'.kind = "error"
              /\ UNCHANGED <<breaks, watches>>]_vars

\* an unknown class was reported while both registries hold ranges
C20_Witness ==
    /\ bwOut.kind = "error"
    /\ \E t \in 0..(DEBUGCNT - 1) : Enabled(breaks[t])
    /\ \E t \in 0..(DEBUGCNT - 1) : Enabled(watches[t])

\* C21: after `fill start end v` with start <= end, verify_mem over the
\* same range returns 0 against a reference that holds v at every address
\* of the range, and end - start + 1 against a reference that holds one
\* other byte w at every address of the range.
C21_FillThenVerify ==
    (pc = "done" /\ argv0 = "verify_mem" /\ args.start <= args.end) =>
        LET w == SrcAt(src, args.start) IN
        (\A a \in args.start..args.end : SrcAt(src, a) = w) =>
            errors = (IF w = buf[1] THEN 0 ELSE args.end - args.start + 1)

\* what holds of the code: the count is as claimed whenever the range has at
\* most INT_MAX addresses or the reference holds the fill byte
C21_CountWithinInt ==
    (/\ pc = "done" /\ argv0 = "verify_mem" /\ args.start <= args.end
     /\ \A a \in args.start..args.end : SrcAt(src, a) = SrcAt(src, args.start)
     /\ (args.end - args.start + 1 <= INT_MAX \/ SrcAt(src, args.start) = buf[1])) =>
        errors = (IF SrcAt(src, args.start) = buf[1] THEN 0
                  ELSE args.end - args.start + 1)

\* C22: in the build with IORQ_OUTPUT and in the build without it the name
\* table, the help table and the handler table have the same number of
\* entries, entry i of each belongs to the same command, a dispatched name
\* calls the handler written for it, and help lists each name with the text
\* written for it.
C22_TablesAligned ==
    LET n == Built(cli_cmd_names, iorq)
        h == Built(cli_cmd_help, iorq)
        f == Built(cli_cmd_functions, iorq)
    IN  /\ Len(n) = NUM_CMDS(iorq)
        /\ Len(h) = NUM_CMDS(iorq)
        /\ Len(f) = NUM_CMDS(iorq)
        /\ \A k \in 0..(NUM_CMDS(iorq) - 1) :
              /\ strlookup(f, k) = HandlerOf(strlookup(n, k))
              /\ TextFor(strlookup(h, k)) = strlookup(n, k)
              /\ cli_help(iorq)[k + 1][1] = strlookup(n, k)
              /\ TextFor(cli_help(iorq)[k + 1][2]) = strlookup(n, k)
        /\ disp.kind = "call" =>
              /\ disp.argv[1] = strlookup(n, disp.index)
              /\ disp.func = HandlerOf(disp.argv[1])

\* the build without IORQ_OUTPUT dispatched `watch`, the last entry, which
\* follows every entry under #ifdef
C22_Witness ==
    /\ ~iorq
    /\ disp.kind = "call"
    /\ disp.argv[1] = <<"w", "a", "t", "c", "h">>
    /\ disp.index = NUM_CMDS(FALSE) - 1
    /\ disp.func = "cli_breakwatch"
    /\ NUM_CMDS(FALSE) < NUM_CMDS(TRUE)

\* the byte verify_mem read from the target and compared with src[a]: byte
\* (a - start) mod 256 of the chunk a lies in
ReadFor(a) ==
    LET j == (a - args.start) % 256
    IN  MemAt("bus", U16(VerifyReadAddr(args.start, a - j) + j))

\* C23: with logging enabled verify_mem logs, for each mismatch and in the
\* order of the addresses, the absolute 16-bit address of the mismatching
\* byte, the reference byte for that address and the byte read from the
\* target, whatever start is.
C23_LogEntries ==
    (argv0 = "verify_mem" /\ vlogOn) =>
        /\ \A k \in 1..Len(vlog) :
              /\ vlog[k][1] \in args.start..args.end
              /\ vlog[k][2] = SrcAt(src, vlog[k][1])
              /\ vlog[k][3] = ReadFor(vlog[k][1])
              /\ vlog[k][3] # vlog[k][2]
              /\ k > 1 => vlog[k - 1][1] < vlog[k][1]
        /\ pc = "done" =>
              Len(vlog) = Cardinality({a \in args.start..args.end :
                                          ReadFor(a) # SrcAt(src, a)})

\* what holds of the code: the same with every logged address taken less
\* start, the address argument being start + i with i the absolute address
C23_LogShifted ==
    (argv0 = "verify_mem" /\ vlogOn) =>
        /\ \A k \in 1..Len(vlog) :
              LET a == vlog[k][1] - args.start
              IN  /\ a \in args.start..args.end
                  /\ vlog[k][2] = SrcAt(src, a)
                  /\ vlog[k][3] = ReadFor(a)
                  /\ vlog[k][3] # vlog[k][2]
                  /\ k > 1 => vlog[k - 1][1] < vlog[k][1]
        /\ pc = "done" =>
              Len(vlog) = Cardinality({a \in args.start..args.end :
                                          ReadFor(a) # SrcAt(src, a)})

\* no cli_exec is running and every command file that was opened is closed
Returned ==
    /\ stack = <<>>
    /\ \A k \in 1..Len(xlog) :
          (IsOpen(xlog[k]) /\ xlog[k].fr = "FR_OK") =>
              \E j \in (k + 1)..Len(xlog) : IsClose(xlog[j]) /\ xlog[j].fd = k

\* C24: the execution of a command file, the files it names with `do`
\* included (itself, or a file that names it back), ends after finitely
\* many dispatched commands: every running cli_exec returns to its caller
\* with its file closed.
C24_ExecReturns == (stack # <<>>) ~> Returned

\* what holds of the code: a running command file returns with its file
\* closed unless the nesting exhausts the stack
C24_ReturnsOrOverflows == (stack # <<>>) ~> (Returned \/ phase = "overflow")

\* the registry a break / watch command does not select
OtherName(name) == IF name = "break" THEN "watch" ELSE "break"

\* the command leaves the other registry alone and, when it names a class,
\* every other class of its own registry
FrameKept(name, av) ==
    /\ RegAfter(OtherName(name)) = RegBefore(OtherName(name))
    /\ (Len(av) >= 1 /\ IsClass(av[1])) =>
          \A t \in 0..(DEBUGCNT - 1) :
              t # ClassOf(av[1]) => RegAfter(name)[t] = RegBefore(name)[t]

\* C25: a `break ...` command changes no watch range and a `watch ...`
\* command no break range, and a command that names one class leaves the
\* range of every other class of its registry unchanged: every step either
\* keeps this frame or is not a step of the command.
C25_Independent ==
    [][\A name \in BwNames, av \in BwArgs :
          FrameKept(name, av) \/ ~Breakwatch(name, av)]_vars

\* each registry holds a range in a class the other has disabled
C25_Witness ==
    /\ breaks[0] = [start |-> 5, end |-> 5]
    /\ breaks[1] = Sentinel
    /\ watches[0] = Sentinel
    /\ watches[1] = [start |-> 0, end |-> 65535]

====
